---- MODULE Spec2Model ----
(***************************************************************************)
(* A model of GardenerHelper                                               *)
(* (src/components/cluster/library/python/lib/gardener.py): one client     *)
(* instance bound to one shoot handle, the Gardener API server it talks    *)
(* to, and the wall clock its polling loops read.                          *)
(*                                                                         *)
(* The client runs one method at a time.  A method that issues a single    *)
(* remote call is one action; a method with a loop or with two remote      *)
(* calls is one action per iteration or per call, so that the server may   *)
(* change between them.  A finished call rests in pc = "done" with its     *)
(* outcome in `result`; Return then takes the client back to "idle".       *)
(* "done" is the instant of the return: the server's own steps are taken   *)
(* before it or after Return, which loses no interleaving.                 *)
(*                                                                         *)
(* Time passes while a polling loop fetches and while a loop sleeps; the   *)
(* methods that issue one request do not read the clock.                   *)
(*                                                                         *)
(* Spec is that client.  SpecSelect applies determine_cloud_provider and   *)
(* select_shoot_template to every context and set of files; SpecInstances  *)
(* constructs and uses two instances of one process in any interleaving.   *)
(***************************************************************************)
EXTENDS Integers, Sequences, FiniteSets

VARIABLES
    shoot,        \* the server's Shoot named self.shoot_name (or NoShoot)
    fetched,      \* local `shoot` of the methods that issue one GET
    now,          \* time.time()
    pc,           \* where the client is
    op,           \* the method being run (or last run)
    timeout,      \* argument of the polling methods
    interval,     \* argument of the polling methods and of the retry wrapper
    start_time,   \* local of the polling methods
    max_retries,  \* argument of safe_call_with_retries
    retries,      \* local of safe_call_with_retries
    func,         \* argument of safe_call_with_retries: how the callable behaves
    reqs,         \* the requests the current call has issued, oldest first
    result,       \* how the last call ended
    args,         \* create_shoot: its arguments, what it read and what it sent
    fetch,        \* the polling loops: when the last fetch began and how long
                  \* it took
    landed,       \* which request of the current call created the resource
                  \* (0: none)
    helpers,      \* the GardenerHelper instances and their attributes
    default_config, \* kubernetes.client.Configuration's process-wide default
    wire,         \* requests on the wire: whose they are, which bundle they use
    sel           \* select_shoot_template: the context and the files it finds

vars == <<shoot, fetched, now, pc, op, timeout, interval, start_time, max_retries,
          retries, func, reqs, result, args, fetch, landed,
          helpers, default_config, wire, sel>>

----------------------------------------------------------------------------
(* Bounds of the model *)

MaxStart == 1
MaxTimeout == 3
MaxInterval == 2
MaxLatency == 1
MaxRetries == 3
MaxFail == 3
MaxWire == 2
RemovalDelay == 1

Timeouts == -1..MaxTimeout
Intervals == 1..MaxInterval
Latencies == 0..MaxLatency

----------------------------------------------------------------------------
(* Python values.  Every value a method returns or raises is a record      *)
(* tagged with its type, so that True, "in-progress", None, a resource     *)
(* and an exception are told apart.                                        *)

PyNone == [t |-> "none"]
PyBool(b) == [t |-> "bool", b |-> b]
PyStr(s) == [t |-> "str", s |-> s]
PyObj(x) == [t |-> "dict", d |-> x]
PyTrue == PyBool(TRUE)
PyFalse == PyBool(FALSE)

\* An exception: its class, the HTTP status of an ApiException (0 otherwise),
\* its message, and the exception chained to it (__cause__ / __context__).
NoCause == "none"
PyExc(cls, status, msg, cause) ==
    [t |-> "exc", cls |-> cls, status |-> status, msg |-> msg, cause |-> cause]

Returned(v) == [kind |-> "return", val |-> v]
Raised(e) == [kind |-> "raise", val |-> e]
NoResult == [kind |-> "none", val |-> PyNone]

----------------------------------------------------------------------------
(* The server: the Shoot custom resource of group core.gardener.cloud,     *)
(* version v1beta1, named self.shoot_name in self.namespace.               *)

\* Marks a key that a dict does not hold.
Absent == "<absent>"

ConfirmationAnnotation == "confirmation.gardener.cloud/deletion"
OtherAnnotation == "owner"
AnnotationKeys == {ConfirmationAnnotation, OtherAnnotation}

\* Values of status.health (a free-form field) and of
\* status.lastOperation.state that the server may report.
HealthValues == {Absent, "", "Green"}
StateValues == {Absent, "Processing", "Succeeded", "SUCCEEDED", "succeeded",
                "Failed", "FAILED"}

NoStatus == [present |-> FALSE, health |-> Absent, hasLastOp |-> FALSE,
             state |-> Absent]

StatusShapes ==
    {NoStatus}
    \cup {[present |-> TRUE, health |-> h, hasLastOp |-> FALSE, state |-> Absent] :
             h \in HealthValues}
    \cup {[present |-> TRUE, health |-> h, hasLastOp |-> TRUE, state |-> s] :
             h \in HealthValues, s \in StateValues}

Manifests == {"m1", "m2"}

\* The resource as the server holds it.  Its status is written by Gardener's
\* controller at any time and never by the client, so the model draws it
\* when the resource is read (GetResponses) instead of storing it.
NoShoot == [exists |-> FALSE, annotations |-> {}, deleting |-> FALSE,
            spec |-> Absent]

\* The resources the server may hold when the client is constructed.
InitShoots ==
    {NoShoot}
    \cup {[exists |-> TRUE, annotations |-> a, deleting |-> FALSE, spec |-> m] :
             a \in SUBSET {OtherAnnotation}, m \in Manifests}

\* The resource as an answer shows it: with the status of that moment.
WithStatus(sh, st) ==
    [exists |-> sh.exists, annotations |-> sh.annotations,
     deleting |-> sh.deleting, spec |-> sh.spec, status |-> st]
NoBody == WithStatus(NoShoot, NoStatus)

\* What the kubernetes client raises: ApiException carries the HTTP status of
\* an answered request; a request that got no answer (connection refused,
\* read timeout) raises urllib3's error, which is not an ApiException.
ApiException(status) == PyExc("ApiException", status, "", NoCause)
TransportError == PyExc("MaxRetryError", 0, "", NoCause)

OkResp(body) == [ok |-> TRUE, body |-> body, exc |-> PyNone]
ErrResp(e) == [ok |-> FALSE, body |-> NoBody, exc |-> e]

\* The answers a request may get whatever the resource is.
Faults == {ErrResp(ApiException(500)), ErrResp(TransportError)}

\* get_namespaced_custom_object
GetResponses(sh) ==
    (IF sh.exists THEN {OkResp(WithStatus(sh, st)) : st \in StatusShapes}
     ELSE {ErrResp(ApiException(404))}) \cup Faults

\* The class of an answer, as the request log keeps it.
ResClass(resp) ==
    IF resp.ok THEN "ok"
    ELSE IF resp.exc.cls # "ApiException" THEN "transport"
    ELSE IF resp.exc.status = 404 THEN "notfound"
    ELSE "apierror"

\* One entry of the request log: the verb, the class of the answer and, for
\* a GET that was answered with a resource, the lastOperation its status
\* showed.
Req(verb, resp) ==
    [verb |-> verb, res |-> ResClass(resp),
     hasLastOp |-> resp.ok /\ resp.body.status.hasLastOp,
     state |-> IF resp.ok THEN resp.body.status.state ELSE Absent,
     err |-> IF resp.ok THEN NoCause ELSE resp.exc.cls]

\* The same for a GET whose resource the caller drops unread
\* (poll_shoot_deletion_status).
ReqUnread(verb, resp) ==
    [verb |-> verb, res |-> ResClass(resp), hasLastOp |-> FALSE,
     state |-> Absent, err |-> IF resp.ok THEN NoCause ELSE resp.exc.cls]

\* A patch that replaces the annotations by the one it names.
MergeAnnotation_Replace(sh, key) == [sh EXCEPT !.annotations = {key}]

\* The resource after a merge patch that names one annotation.
MergeAnnotation(sh, key) == [sh EXCEPT !.annotations = @ \cup {key}]

\* A request that changes the resource may be carried out although its
\* answer is lost on the way back: the client then sees a transport error.
\* The answer to an accepted request shows the resource; the client reads
\* none of its status.
Outcome(resp, after) == [resp |-> resp, after |-> after]
Unanswered(sh, after) ==
    {Outcome(f, sh) : f \in Faults} \cup {Outcome(ErrResp(TransportError), after)}

\* patch_namespaced_custom_object with a body naming one annotation
PatchOutcomes(sh, key) ==
    IF sh.exists
    THEN LET after == MergeAnnotation(sh, key)
         IN  {Outcome(OkResp(WithStatus(after, NoStatus)), after)}
             \cup Unanswered(sh, after)
    ELSE {Outcome(ErrResp(ApiException(404)), sh)} \cup Unanswered(sh, sh)

\* delete_namespaced_custom_object: Gardener refuses to delete a Shoot that
\* does not carry the confirmation annotation; an accepted deletion marks
\* the resource, and the controller removes it later.
DeleteOutcomes(sh) ==
    IF ~sh.exists
    THEN {Outcome(ErrResp(ApiException(404)), sh)} \cup Unanswered(sh, sh)
    ELSE IF ConfirmationAnnotation \notin sh.annotations
    THEN {Outcome(ErrResp(ApiException(403)), sh)} \cup Unanswered(sh, sh)
    ELSE LET after == [sh EXCEPT !.deleting = TRUE]
         IN  {Outcome(OkResp(WithStatus(after, NoStatus)), after)}
             \cup Unanswered(sh, after)

\* create_namespaced_custom_object with a manifest as body
CreateOutcomes(sh, m) ==
    IF sh.exists
    THEN {Outcome(ErrResp(ApiException(409)), sh)} \cup Unanswered(sh, sh)
    ELSE LET after == [exists |-> TRUE, annotations |-> {}, deleting |-> FALSE,
                       spec |-> m]
         IN  {Outcome(OkResp(WithStatus(after, NoStatus)), after)}
             \cup Unanswered(sh, after)

\* The same for a manifest that names another resource than the client's:
\* whether that resource exists is not followed, since no method reads it.
CreateOutcomesElsewhere(m) ==
    UNION {CreateOutcomes(sh, m) : sh \in InitShoots}

----------------------------------------------------------------------------
(* The client's read methods, as functions of the server's answer.         *)

\* str.lower() on the strings of the model.
Lower(s) ==
    CASE s = "Succeeded" -> "succeeded"
      [] s = "SUCCEEDED" -> "succeeded"
      [] s = "Failed" -> "failed"
      [] s = "FAILED" -> "failed"
      [] s = "Processing" -> "processing"
      [] s = "Progressing" -> "progressing"
      [] s = "Unknown" -> "unknown"
      [] s = "Green" -> "green"
      [] OTHER -> s

\* get_shoot returning None for every ApiException.
get_shoot_AnyStatus(resp) ==
    IF resp.ok THEN Returned(PyObj(resp.body))
    ELSE IF resp.exc.cls = "ApiException" THEN Returned(PyNone)
         ELSE Raised(resp.exc)

\* get_shoot: the resource, None on a 404, any other failure raised.
get_shoot(resp) ==
    IF resp.ok THEN Returned(PyObj(resp.body))
    ELSE IF resp.exc.cls = "ApiException"
         THEN IF resp.exc.status = 404 THEN Returned(PyNone)
              ELSE Raised(resp.exc)
         ELSE Raised(resp.exc)

\* shoot_exists: get_shoot() is not None.
shoot_exists(resp) ==
    LET got == get_shoot(resp)
    IN  IF got.kind = "raise" THEN got
        ELSE Returned(PyBool(got.val.t # "none"))

\* Python's truth value of what get_shoot returned and of a string a dict
\* lookup gave (None when the key is missing).
TruthyShoot(v) == v.t = "dict"
TruthyStr(s) == s # Absent /\ s # ""

NoHealthInfo == "Status available but no health info"
NoStatusAvailable == "No status available"

\* check_shoot_health looking at lastOperation before health.
check_shoot_health_StateFirst(resp) ==
    LET got == get_shoot(resp)
    IN  IF got.kind = "raise" THEN got
        ELSE IF TruthyShoot(got.val) /\ got.val.d.status.present
        THEN LET st == got.val.d.status
             IN  IF st.hasLastOp
                 THEN Returned(PyStr(IF st.state = Absent THEN "Unknown"
                                     ELSE st.state))
                 ELSE IF TruthyStr(st.health) THEN Returned(PyStr(st.health))
                      ELSE Returned(PyStr(NoHealthInfo))
        ELSE Returned(PyStr(NoStatusAvailable))

\* check_shoot_health testing only that a resource came back.
check_shoot_health_NoStatusKey(resp) ==
    LET got == get_shoot(resp)
    IN  IF got.kind = "raise" THEN got
        ELSE IF TruthyShoot(got.val)
        THEN LET st == got.val.d.status
             IN  IF TruthyStr(st.health) THEN Returned(PyStr(st.health))
                 ELSE IF st.hasLastOp
                      THEN Returned(PyStr(IF st.state = Absent THEN "Unknown"
                                          ELSE st.state))
                      ELSE Returned(PyStr(NoHealthInfo))
        ELSE Returned(PyStr(NoStatusAvailable))

\* check_shoot_health
check_shoot_health(resp) ==
    LET got == get_shoot(resp)
    IN  IF got.kind = "raise" THEN got
        ELSE IF TruthyShoot(got.val) /\ got.val.d.status.present
        THEN LET st == got.val.d.status
             IN  IF TruthyStr(st.health) THEN Returned(PyStr(st.health))
                 ELSE IF st.hasLastOp
                      THEN Returned(PyStr(IF st.state = Absent THEN "Unknown"
                                          ELSE st.state))
                      ELSE Returned(PyStr(NoHealthInfo))
        ELSE Returned(PyStr(NoStatusAvailable))

\* The loop bodies answer with a result that ends the call, or with Continue.
Continue == [kind |-> "continue", val |-> PyNone]
InProgress == PyStr("in-progress")

\* poll_shoot_status comparing state without lower().
PollStatusBody_NoLower(resp) ==
    LET got == get_shoot(resp)
    IN  IF got.kind = "raise" THEN got
        ELSE IF TruthyShoot(got.val) /\ got.val.d.status.present
                /\ got.val.d.status.hasLastOp
        THEN LET st == got.val.d.status
                 state == IF st.state = Absent THEN "Progressing" ELSE st.state
             IN  IF state = "succeeded" THEN Returned(PyTrue)
                 ELSE IF state = "failed" THEN Returned(PyFalse)
                 ELSE Continue
        ELSE Continue

\* poll_shoot_status reading status.lastOperation without looking for the
\* keys first.
PollStatusBody_KeyError(resp) ==
    LET got == get_shoot(resp)
    IN  IF got.kind = "raise" THEN got
        ELSE IF TruthyShoot(got.val) /\ got.val.d.status.present
                /\ got.val.d.status.hasLastOp
        THEN LET st == got.val.d.status
                 state == IF st.state = Absent THEN "Progressing" ELSE st.state
             IN  IF Lower(state) = "succeeded" THEN Returned(PyTrue)
                 ELSE IF Lower(state) = "failed" THEN Returned(PyFalse)
                 ELSE Continue
        ELSE Raised(PyExc("KeyError", 0, "lastOperation", NoCause))

\* poll_shoot_status waiting, after a "failed", for a later "succeeded".
PollStatusBody_FailedRetried(resp) ==
    LET got == get_shoot(resp)
    IN  IF got.kind = "raise" THEN got
        ELSE IF TruthyShoot(got.val) /\ got.val.d.status.present
                /\ got.val.d.status.hasLastOp
        THEN LET st == got.val.d.status
                 state == IF st.state = Absent THEN "Progressing" ELSE st.state
             IN  IF Lower(state) = "succeeded" THEN Returned(PyTrue)
                 ELSE Continue
        ELSE Continue

\* One pass of poll_shoot_status's loop body, up to the sleep.
PollStatusBody(resp) ==
    LET got == get_shoot(resp)
    IN  IF got.kind = "raise" THEN got
        ELSE IF TruthyShoot(got.val) /\ got.val.d.status.present
                /\ got.val.d.status.hasLastOp
        THEN LET st == got.val.d.status
                 state == IF st.state = Absent THEN "Progressing" ELSE st.state
             IN  IF Lower(state) = "succeeded" THEN Returned(PyTrue)
                 ELSE IF Lower(state) = "failed" THEN Returned(PyFalse)
                 ELSE Continue
        ELSE Continue

\* poll_shoot_deletion_status taking a 404 for one more failed fetch.
PollDeletionBody_NotFoundSwallowed(resp) ==
    IF resp.ok THEN Continue
    ELSE IF resp.exc.cls = "ApiException" THEN Continue
         ELSE Raised(resp.exc)

\* poll_shoot_deletion_status taking every ApiException for not-found.
PollDeletionBody_AnyStatus(resp) ==
    IF resp.ok THEN Continue
    ELSE IF resp.exc.cls = "ApiException" THEN Returned(PyTrue)
         ELSE Raised(resp.exc)

\* One pass of poll_shoot_deletion_status's loop body, up to the sleep.
PollDeletionBody(resp) ==
    IF resp.ok THEN Continue
    ELSE IF resp.exc.cls = "ApiException"
         THEN IF resp.exc.status = 404 THEN Returned(PyTrue)
              ELSE Continue
         ELSE Raised(resp.exc)

----------------------------------------------------------------------------
(* The callable handed to safe_call_with_retries: it fails on its first    *)
(* failFirst invocations and succeeds on every later one.  Each failure    *)
(* raises an exception of its own.                                         *)

Funcs == [failFirst : 0..MaxFail]
NoFunc == [failFirst |-> 0]
FuncErrors == {"boom-a", "boom-b"}
FuncValue == PyStr("value")
FuncError(msg) == PyExc("RuntimeError", 0, msg, NoCause)

\* The outcomes of invocation number n (counted from 1) of callable f.
FuncOutcomes(f, n) ==
    IF n <= f.failFirst THEN {Raised(FuncError(msg)) : msg \in FuncErrors}
    ELSE {Returned(FuncValue)}

CallReq(out) ==
    [verb |-> "CALL", res |-> IF out.kind = "return" THEN "ok" ELSE "error",
     hasLastOp |-> FALSE, state |-> Absent,
     err |-> IF out.kind = "return" THEN NoCause ELSE out.val.msg]

MaxRetriesExceeded ==
    PyExc("Exception", 0, "Max retries exceeded. Aborting operation.", NoCause)

----------------------------------------------------------------------------
(* create_shoot: the manifest, where it comes from and how it is parsed.   *)

\* The name the client was constructed with, and another name a manifest
\* may carry in metadata.name.
ShootName == "monika-vm"
OtherName == "other-vm"
ShootNames == {ShootName, OtherName}

\* A parsed manifest: the name it gives the resource and its spec.
ShootTemplates == [name : ShootNames, spec : Manifests]
NoTemplate == [name |-> Absent, spec |-> Absent]

\* YAML texts: the four manifests, a text that does not parse, and the empty
\* text.
BrokenYaml == "metadata: ["
ManifestTexts ==
    {"metadata: {name: monika-vm}, spec: m1", "metadata: {name: monika-vm}, spec: m2",
     "metadata: {name: other-vm}, spec: m1", "metadata: {name: other-vm}, spec: m2"}
FileTexts == ManifestTexts \cup {BrokenYaml, ""}

\* yaml.safe_load: the dict of a manifest, None for an empty document, or a
\* YAMLError.
yaml_safe_load(text) ==
    CASE text = "metadata: {name: monika-vm}, spec: m1" ->
             Returned(PyObj([name |-> "monika-vm", spec |-> "m1"]))
      [] text = "metadata: {name: monika-vm}, spec: m2" ->
             Returned(PyObj([name |-> "monika-vm", spec |-> "m2"]))
      [] text = "metadata: {name: other-vm}, spec: m1" ->
             Returned(PyObj([name |-> "other-vm", spec |-> "m1"]))
      [] text = "metadata: {name: other-vm}, spec: m2" ->
             Returned(PyObj([name |-> "other-vm", spec |-> "m2"]))
      [] text = "" -> Returned(PyNone)
      [] OTHER -> Raised(PyExc("YAMLError", 0, text, NoCause))

\* The arguments of create_shoot: None (Absent), the empty string or a text;
\* None or a path.
CallerPath == "./shoot-template.yml"
TemplateStrings == {Absent, ""} \cup ManifestTexts \cup {BrokenYaml}
TemplatePaths == {Absent, CallerPath}

\* The files select_shoot_template looks for, under the repository's base
\* directory, and the context file determine_cloud_provider reads.
TemplatesDir == "deployments/cluster/templates"
DeploymentsShoot == "deployments/cluster/shoot.yml"
GenericTemplate == "deployments/cluster/templates/shoot.yml"
Providers == {"aws", "azure", "gcp", "openstack"}
TemplateOf(p) ==
    CASE p = "aws" -> "deployments/cluster/templates/shoot-aws.yml"
      [] p = "azure" -> "deployments/cluster/templates/shoot-azure.yml"
      [] p = "gcp" -> "deployments/cluster/templates/shoot-gcp.yml"
      [] p = "openstack" -> "deployments/cluster/templates/shoot-openstack.yml"

\* The providers whose manifest is tried when neither the provider's own
\* nor the generic one exists, in the order they are tried.
FallbackProviders == <<"aws", "azure", "gcp">>

\* The sets of existing paths: a file of the templates directory exists only
\* when the directory does.
InTemplatesDir == {GenericTemplate} \cup {TemplateOf(p) : p \in Providers}
FileSystems ==
    {fs \in SUBSET ({TemplatesDir, DeploymentsShoot} \cup InTemplatesDir) :
        fs \cap InTemplatesDir # {} => TemplatesDir \in fs}

\* What `iac -d cluster context` and gen/ctx.yml give: the iac executable is
\* not installed, the file is missing, the file does not parse, or the file
\* parses and context.imports.iaas_provider.landscape.type is missing
\* (Absent), empty, or names a provider.
Contexts ==
    {[file |-> f, type |-> Absent] : f \in {"no-iac", "missing", "broken"}}
    \cup {[file |-> "ok", type |-> t] : t \in {Absent, ""} \cup Providers}

FileNotFoundError(msg) == PyExc("FileNotFoundError", 0, msg, NoCause)

determine_cloud_provider(ctx) ==
    IF ctx.file = "no-iac" THEN Raised(FileNotFoundError("iac"))
    ELSE IF ctx.file = "missing" THEN Returned(PyNone)
    ELSE IF ctx.file = "broken" THEN Returned(PyNone)
    ELSE IF ctx.type = Absent THEN Returned(PyNone)
    ELSE Returned(PyStr(ctx.type))

ProviderUndetermined ==
    "Cloud provider could not be determined from context. Please specify a template file directly."
NoTemplatesDir == "Could not find templates directory or shoot.yml."
NoTemplateFor == "Could not find template for provider."

\* The first of the fallback providers whose manifest exists.
FirstFallback(files) ==
    LET have == {i \in DOMAIN FallbackProviders :
                    TemplateOf(FallbackProviders[i]) \in files}
    IN  CHOOSE i \in have : \A j \in have : i <= j

\* select_shoot_template: the path it returns or the exception it raises.
select_shoot_template(ctx, files) ==
    LET d == determine_cloud_provider(ctx)
    IN  IF d.kind = "raise" THEN d
        ELSE IF d.val.t # "str" \/ ~TruthyStr(d.val.s)
        THEN Raised(PyExc("ValueError", 0, ProviderUndetermined, NoCause))
        ELSE IF TemplatesDir \notin files
        THEN IF DeploymentsShoot \in files
             THEN Returned(PyStr(DeploymentsShoot))
             ELSE Raised(FileNotFoundError(NoTemplatesDir))
        ELSE IF TemplateOf(d.val.s) \in files
        THEN Returned(PyStr(TemplateOf(d.val.s)))
        ELSE IF GenericTemplate \in files
        THEN Returned(PyStr(GenericTemplate))
        ELSE IF \E i \in DOMAIN FallbackProviders :
                    TemplateOf(FallbackProviders[i]) \in files
        THEN Returned(PyStr(TemplateOf(FallbackProviders[FirstFallback(files)])))
        ELSE Raised(FileNotFoundError(NoTemplateFor))

\* Every outcome select_shoot_template has for some context and some files.
SelectOutcomes ==
    {select_shoot_template(ctx, files) : ctx \in Contexts, files \in FileSystems}
NoSelection == Returned(PyNone)

\* create_shoot selects a template when neither argument is given.
Selecting(ts, tfp) == ~TruthyStr(ts) /\ ~TruthyStr(tfp)

ExplicitTemplate ==
    "Please provide a template_file_path or template_string explicitly."

\* create_shoot's template_file_path after the selection.
ResolvedPath(ts, tfp, s) ==
    IF Selecting(ts, tfp) /\ s.kind = "return" THEN s.val.s ELSE tfp

\* create_shoot gets as far as asking whether the file exists.
ChecksFile(ts, tfp, s) ==
    ~TruthyStr(ts) /\ ~(Selecting(ts, tfp) /\ s.kind = "raise")

\* A create_shoot that prefers the file to the inline string.
LoadTemplate_FileFirst(ts, tfp, s, exists, text) ==
    IF Selecting(ts, tfp) /\ s.kind = "raise"
    THEN [opened |-> <<>>,
          out |-> Raised(PyExc("ValueError", 0, ExplicitTemplate, s.val.cls))]
    ELSE IF TruthyStr(ResolvedPath(ts, tfp, s))
    THEN IF ~exists
         THEN [opened |-> <<>>,
               out |-> Raised(FileNotFoundError("Template file does not exist"))]
         ELSE [opened |-> <<[path |-> ResolvedPath(ts, tfp, s), text |-> text]>>,
               out |-> yaml_safe_load(text)]
    ELSE [opened |-> <<>>, out |-> yaml_safe_load(ts)]

\* A create_shoot that passes on the exception of the selection.
LoadTemplate_Unwrapped(ts, tfp, s, exists, text) ==
    IF Selecting(ts, tfp) /\ s.kind = "raise"
    THEN [opened |-> <<>>, out |-> s]
    ELSE IF TruthyStr(ts)
    THEN [opened |-> <<>>, out |-> yaml_safe_load(ts)]
    ELSE IF ~exists
    THEN [opened |-> <<>>,
          out |-> Raised(FileNotFoundError("Template file does not exist"))]
    ELSE [opened |-> <<[path |-> ResolvedPath(ts, tfp, s), text |-> text]>>,
          out |-> yaml_safe_load(text)]

\* create_shoot up to its request: the files it opens and the manifest it
\* loads, or the exception it raises.  `s` is what select_shoot_template
\* gives, `exists` what os.path.exists says of the file and `text` what the
\* file holds.
LoadTemplate(ts, tfp, s, exists, text) ==
    IF Selecting(ts, tfp) /\ s.kind = "raise"
    THEN [opened |-> <<>>,
          out |-> Raised(PyExc("ValueError", 0, ExplicitTemplate, s.val.cls))]
    ELSE IF TruthyStr(ts)
    THEN [opened |-> <<>>, out |-> yaml_safe_load(ts)]
    ELSE IF ~exists
    THEN [opened |-> <<>>,
          out |-> Raised(FileNotFoundError("Template file does not exist"))]
    ELSE [opened |-> <<[path |-> ResolvedPath(ts, tfp, s), text |-> text]>>,
          out |-> yaml_safe_load(text)]

\* The kubernetes client refuses a body of None before it sends anything.
MissingBody ==
    PyExc("ValueError", 0, "Missing the required parameter body", NoCause)

\* The body of the create request: the loaded manifest itself.
RequestBody(shoot_template, name) == shoot_template

\* A create_shoot that drops the server's answer.
AfterCreate_Dropped(resp) ==
    IF resp.ok THEN Returned(PyNone) ELSE Raised(resp.exc)

\* A create_shoot that logs the failure of its request and returns None.
AfterCreate_Swallowed(resp) ==
    IF resp.ok THEN Returned(PyObj(resp.body)) ELSE Returned(PyNone)

\* How create_shoot ends after its request: the created resource is
\* returned, or the exception is raised again.
AfterCreate(resp) ==
    IF resp.ok THEN Returned(PyObj(resp.body)) ELSE Raised(resp.exc)

NoArgs ==
    [template_string |-> Absent, template_file_path |-> Absent,
     selected |-> NoSelection, opened |-> <<>>, shoot_template |-> NoResult,
     body |-> NoTemplate]

\* The polling loops' last fetch.
NoFetch == [begun |-> FALSE, at |-> 0, lat |-> 0]

----------------------------------------------------------------------------
(* The instances and the kubernetes client's configuration.                *)

\* Two kubeconfig files and the handles they are used with.
KubeconfigPaths == {"./robot-kubeconfig.yml", "./other-kubeconfig.yml"}
Namespaces == {"garden-perftests", "garden-other"}
Instances == {1, 2}

\* A Configuration: the endpoint and the credentials of one kubeconfig.
NoConfiguration == [host |-> Absent, token |-> Absent]

\* config.load_kube_config(config_file=path): the Configuration the file
\* describes.
load_kube_config(path) ==
    CASE path = "./robot-kubeconfig.yml" ->
             [host |-> "https://api.garden-a", token |-> "robot-token"]
      [] path = "./other-kubeconfig.yml" ->
             [host |-> "https://api.garden-b", token |-> "other-token"]

\* An instance whose constructor has not begun, and a constructed one.
NotConstructed ==
    [pc |-> "new", kubeconfig_path |-> Absent, namespace |-> Absent,
     shoot_name |-> Absent, custom_api |-> NoConfiguration]
Constructed(path, ns, name) ==
    [pc |-> "ready", kubeconfig_path |-> path, namespace |-> ns,
     shoot_name |-> name, custom_api |-> load_kube_config(path)]

\* The instance whose methods the state machine runs.
self == helpers[1]

\* The answers to the adminkubeconfig request when the Shoot exists: a
\* status.kubeconfig in base64, or an answer without it.
EncodedKubeconfig == "YXBpVmVyc2lvbjogdjE="
KubeconfigAnswers ==
    {[hasKubeconfig |-> TRUE, kubeconfig |-> EncodedKubeconfig],
     [hasKubeconfig |-> FALSE, kubeconfig |-> Absent]}

\* base64.b64decode(...).decode("utf-8")
b64decode(text) ==
    CASE text = "YXBpVmVyc2lvbjogdjE=" -> "apiVersion: v1"

\* The Configuration config.new_client_from_config_dict builds from the
\* shoot's kubeconfig: one of its own, the process-wide default is not
\* touched.
ShootConfiguration == [host |-> "https://api.shoot", token |-> "admin-token"]

\* The adminkubeconfig subresource of the Shoot.
KubeconfigResponses(sh) ==
    (IF sh.exists THEN {OkResp(a) : a \in KubeconfigAnswers}
     ELSE {ErrResp(ApiException(404))}) \cup Faults

\* get_shoot_kubeconfig as a function of the answer: the decoded kubeconfig
\* and the shoot's client, or the exception raised again.
get_shoot_kubeconfig(resp) ==
    IF ~resp.ok THEN Raised(resp.exc)
    ELSE IF ~resp.body.hasKubeconfig
    THEN Raised(PyExc("KeyError", 0, "kubeconfig", NoCause))
    ELSE Returned(PyObj([kubeconfig |-> b64decode(resp.body.kubeconfig),
                         shoot_api_client |-> ShootConfiguration]))

\* A get_shoot_kubeconfig that keeps the shoot's client as the instance's.
AfterKubeconfig_Rebound(h, out) ==
    IF out.kind = "return"
    THEN [h EXCEPT !.custom_api = out.val.d.shoot_api_client]
    ELSE h

\* The instance after get_shoot_kubeconfig: no attribute is assigned.
AfterKubeconfig(h, out) == h

NoSelectInput == [ctx |-> [file |-> "missing", type |-> Absent], files |-> {}]

----------------------------------------------------------------------------
(* The state machine *)

Init ==
    /\ shoot \in InitShoots
    /\ fetched = NoBody
    /\ now \in 0..MaxStart
    /\ pc = "idle"
    /\ op = "none"
    /\ timeout = 0
    /\ interval = 0
    /\ start_time = 0
    /\ max_retries = 0
    /\ retries = 0
    /\ func = NoFunc
    /\ reqs = <<>>
    /\ result = NoResult
    /\ args = NoArgs
    /\ fetch = NoFetch
    /\ landed = 0
    /\ helpers = [i \in Instances |->
                     IF i = 1
                     THEN Constructed("./robot-kubeconfig.yml", "garden-perftests",
                                      ShootName)
                     ELSE NotConstructed]
    /\ default_config = load_kube_config("./robot-kubeconfig.yml")
    /\ wire = <<>>
    /\ sel = NoSelectInput

\* A polling loop that always makes its first fetch, whatever the timeout.
PollGuard_AtLeastOnce(t, start, limit) == t = start \/ t - start < limit

\* A polling loop that still fetches when the elapsed time equals the
\* timeout.
PollGuard_Inclusive(t, start, limit) == t - start <= limit

\* The condition of the polling loops' while.
PollGuard(t, start, limit) == t - start < limit

\* The retry loop counting one attempt too many.
RetryGuard_OneMore(n, limit) == n <= limit

\* The condition of safe_call_with_retries's while.
RetryGuard(n, limit) == n < limit

\* A read method whose request removes the resource instead of fetching it.
ReadCall_Deleting(name, outcome) ==
    /\ pc = "idle"
    /\ op' = name
    /\ result' = outcome
    /\ pc' = "done"
    /\ shoot' = NoShoot
    /\ UNCHANGED <<now, timeout, interval, start_time, max_retries, retries, func>>
    /\ UNCHANGED <<args, fetch, landed, helpers, default_config, wire, sel>>

\* A method that issues one GET and returns: get_shoot, shoot_exists,
\* check_shoot_health.
ReadCall(name, outcome) ==
    /\ pc = "idle"
    /\ op' = name
    /\ result' = outcome
    /\ pc' = "done"
    /\ UNCHANGED <<shoot, now, timeout, interval, start_time, max_retries,
                   retries, func>>
    /\ UNCHANGED <<args, fetch, landed, helpers, default_config, wire, sel>>

GetShoot ==
    \E resp \in GetResponses(shoot) :
        /\ ReadCall("get_shoot", get_shoot(resp))
        /\ fetched' = resp.body
        /\ reqs' = <<Req("GET", resp)>>

ShootExists ==
    \E resp \in GetResponses(shoot) :
        /\ ReadCall("shoot_exists", shoot_exists(resp))
        /\ fetched' = resp.body
        /\ reqs' = <<Req("GET", resp)>>

CheckShootHealth ==
    \E resp \in GetResponses(shoot) :
        /\ ReadCall("check_shoot_health", check_shoot_health(resp))
        /\ fetched' = resp.body
        /\ reqs' = <<Req("GET", resp)>>

\* poll_shoot_status, entry: start_time = time.time().
PollStatusCall ==
    /\ pc = "idle"
    /\ now <= MaxStart
    /\ \E t \in Timeouts, i \in Intervals :
          /\ timeout' = t
          /\ interval' = i
    /\ op' = "poll_shoot_status"
    /\ start_time' = now
    /\ reqs' = <<>>
    /\ result' = NoResult
    /\ pc' = "poll_status"
    /\ UNCHANGED <<shoot, fetched, now, max_retries, retries, func>>
    /\ fetch' = NoFetch
    /\ UNCHANGED <<args, landed, helpers, default_config, wire, sel>>

\* One pass of a polling loop: the fetch takes lat, the body decides, and a
\* pass that does not end the call sleeps for interval.
PollPass(body, req, lat) ==
    /\ reqs' = Append(reqs, req)
    /\ IF body.kind = "continue"
       THEN /\ now' = now + lat + interval
            /\ UNCHANGED <<pc, result>>
       ELSE /\ now' = now + lat
            /\ result' = body
            /\ pc' = "done"
    /\ UNCHANGED <<shoot, fetched, op, timeout, interval, start_time, max_retries,
                   retries, func>>
    /\ fetch' = [begun |-> TRUE, at |-> now, lat |-> lat]
    /\ UNCHANGED <<args, landed, helpers, default_config, wire, sel>>

\* A polling loop whose while condition fails: return "in-progress".
PollTimeout ==
    /\ ~PollGuard(now, start_time, timeout)
    /\ result' = Returned(InProgress)
    /\ pc' = "done"
    /\ UNCHANGED <<shoot, fetched, now, op, timeout, interval, start_time, max_retries,
                   retries, func, reqs>>
    /\ UNCHANGED <<args, fetch, landed, helpers, default_config, wire, sel>>

PollStatusIter ==
    /\ pc = "poll_status"
    /\ PollGuard(now, start_time, timeout)
    /\ \E resp \in GetResponses(shoot), lat \in Latencies :
          PollPass(PollStatusBody(resp), Req("GET", resp), lat)

PollStatusTimeout ==
    /\ pc = "poll_status"
    /\ PollTimeout

\* poll_shoot_deletion_status, entry: start_time = time.time().
PollDeletionCall ==
    /\ pc = "idle"
    /\ now <= MaxStart
    /\ \E t \in Timeouts, i \in Intervals :
          /\ timeout' = t
          /\ interval' = i
    /\ op' = "poll_shoot_deletion_status"
    /\ start_time' = now
    /\ reqs' = <<>>
    /\ result' = NoResult
    /\ pc' = "poll_deletion"
    /\ UNCHANGED <<shoot, fetched, now, max_retries, retries, func>>
    /\ fetch' = NoFetch
    /\ UNCHANGED <<args, landed, helpers, default_config, wire, sel>>

PollDeletionIter ==
    /\ pc = "poll_deletion"
    /\ PollGuard(now, start_time, timeout)
    /\ \E resp \in GetResponses(shoot), lat \in Latencies :
          PollPass(PollDeletionBody(resp), ReqUnread("GET", resp), lat)

PollDeletionTimeout ==
    /\ pc = "poll_deletion"
    /\ PollTimeout

\* A delete_shoot that logs the patch's failure and carries on.
AfterPatch_Swallowed(resp) == "delete_phase2"

\* Where delete_shoot goes after the answer to its patch: on to the delete
\* request, or out with the exception re-raised.
AfterPatch(resp) == IF resp.ok THEN "delete_phase2" ELSE "done"

\* delete_shoot, first request: the confirmation annotation is patched in.
DeleteShootPatch ==
    /\ pc = "idle"
    /\ \E o \in PatchOutcomes(shoot, ConfirmationAnnotation) :
          /\ shoot' = o.after
          /\ reqs' = <<Req("PATCH", o.resp)>>
          /\ pc' = AfterPatch(o.resp)
          /\ result' = IF o.resp.ok THEN NoResult ELSE Raised(o.resp.exc)
    /\ op' = "delete_shoot"
    /\ UNCHANGED <<fetched, now, timeout, interval, start_time, max_retries, retries,
                   func>>
    /\ UNCHANGED <<args, fetch, landed, helpers, default_config, wire, sel>>

\* delete_shoot, second request: the deletion itself.
DeleteShootDelete ==
    /\ pc = "delete_phase2"
    /\ \E o \in DeleteOutcomes(shoot) :
          /\ shoot' = o.after
          /\ reqs' = Append(reqs, Req("DELETE", o.resp))
          /\ result' = IF o.resp.ok THEN Returned(PyNone)
                       ELSE Raised(o.resp.exc)
    /\ pc' = "done"
    /\ UNCHANGED <<fetched, now, op, timeout, interval, start_time, max_retries,
                   retries, func>>
    /\ UNCHANGED <<args, fetch, landed, helpers, default_config, wire, sel>>

\* create_shoot: the manifest is loaded and, if that succeeds, submitted in
\* one create request.
CreateShoot ==
    /\ pc = "idle"
    /\ \E ts \in TemplateStrings, tfp \in TemplatePaths :
       \E s \in IF Selecting(ts, tfp) THEN SelectOutcomes ELSE {NoSelection} :
       \E exists \in IF ChecksFile(ts, tfp, s) THEN BOOLEAN ELSE {FALSE} :
       \E text \in IF exists THEN FileTexts ELSE {""} :
          LET ld == LoadTemplate(ts, tfp, s, exists, text)
              loaded == ld.out.kind = "return" /\ ld.out.val # PyNone
              body == IF loaded THEN RequestBody(ld.out.val.d, self.shoot_name)
                      ELSE NoTemplate
              own == body.name = self.shoot_name
              called == [template_string |-> ts, template_file_path |-> tfp,
                         selected |-> s,
                         opened |-> ld.opened, shoot_template |-> ld.out,
                         body |-> body]
          IN  /\ args' = called
              /\ IF loaded
                 THEN \E o \in IF own THEN CreateOutcomes(shoot, body.spec)
                                 ELSE CreateOutcomesElsewhere(body.spec) :
                          /\ shoot' = IF own THEN o.after ELSE shoot
                          /\ reqs' = <<Req("POST", o.resp)>>
                          /\ result' = AfterCreate(o.resp)
                 ELSE /\ result' = IF ld.out.kind = "raise" THEN ld.out
                                   ELSE Raised(MissingBody)
                      /\ reqs' = <<>>
                      /\ UNCHANGED shoot
    /\ op' = "create_shoot"
    /\ pc' = "done"
    /\ UNCHANGED <<fetched, now, timeout, interval, start_time, max_retries, retries,
                   func>>
    /\ UNCHANGED <<fetch, landed, helpers, default_config, wire, sel>>

\* get_shoot as the statement that follows a create_shoot that returned: the
\* server takes no step in between.  Of create_shoot's frame only the body
\* it sent is kept.
GetShootAfterCreate ==
    /\ pc = "done"
    /\ op = "create_shoot"
    /\ result.kind = "return"
    /\ \E resp \in GetResponses(shoot) :
          /\ result' = get_shoot(resp)
          /\ fetched' = resp.body
          /\ reqs' = <<Req("GET", resp)>>
    /\ op' = "get_shoot"
    /\ pc' = "done"
    /\ args' = [NoArgs EXCEPT !.body = args.body]
    /\ UNCHANGED <<shoot, now, timeout, interval, start_time, max_retries, retries,
                   func>>
    /\ UNCHANGED <<fetch, landed, helpers, default_config, wire, sel>>

\* get_shoot_kubeconfig: one POST to the adminkubeconfig subresource.
GetShootKubeconfig ==
    /\ pc = "idle"
    /\ \E resp \in KubeconfigResponses(shoot) :
          /\ result' = get_shoot_kubeconfig(resp)
          /\ reqs' = <<ReqUnread("POST", resp)>>
          /\ helpers' = [helpers EXCEPT
                             ![1] = AfterKubeconfig(self, get_shoot_kubeconfig(resp))]
    /\ op' = "get_shoot_kubeconfig"
    /\ pc' = "done"
    /\ UNCHANGED <<shoot, fetched, now, timeout, interval, start_time, max_retries,
                   retries, func>>
    /\ UNCHANGED <<args, fetch, landed, default_config, wire, sel>>

\* safe_call_with_retries, entry: retries = 0.
RetryCall ==
    /\ pc = "idle"
    /\ now <= MaxStart
    /\ \E n \in 0..MaxRetries, f \in Funcs, i \in Intervals :
          /\ max_retries' = n
          /\ func' = f
          /\ interval' = i
    /\ op' = "safe_call_with_retries"
    /\ retries' = 0
    /\ reqs' = <<>>
    /\ result' = NoResult
    /\ pc' = "retry_loop"
    /\ UNCHANGED <<shoot, fetched, now, timeout, start_time>>
    /\ UNCHANGED <<args, fetch, landed, helpers, default_config, wire, sel>>

\* A retry loop that sleeps only when another attempt is to follow.
RetryAttempt_NoFinalSleep ==
    /\ pc = "retry_loop"
    /\ RetryGuard(retries, max_retries)
    /\ \E out \in FuncOutcomes(func, Len(reqs) + 1) :
          /\ reqs' = Append(reqs, CallReq(out))
          /\ IF out.kind = "return"
             THEN /\ result' = out
                  /\ pc' = "done"
                  /\ UNCHANGED <<retries, now>>
             ELSE /\ retries' = retries + 1
                  /\ now' = IF RetryGuard(retries + 1, max_retries)
                            THEN now + interval ELSE now
                  /\ UNCHANGED <<pc, result>>
    /\ UNCHANGED <<shoot, fetched, op, timeout, interval, start_time, max_retries, func>>
    /\ UNCHANGED <<args, fetch, landed, helpers, default_config, wire, sel>>

\* One pass of the retry loop: func() returns, or it raises and the loop
\* counts the failure and sleeps.
RetryAttempt ==
    /\ pc = "retry_loop"
    /\ RetryGuard(retries, max_retries)
    /\ \E out \in FuncOutcomes(func, Len(reqs) + 1) :
          /\ reqs' = Append(reqs, CallReq(out))
          /\ IF out.kind = "return"
             THEN /\ result' = out
                  /\ pc' = "done"
                  /\ UNCHANGED <<retries, now>>
             ELSE /\ retries' = retries + 1
                  /\ now' = now + interval
                  /\ UNCHANGED <<pc, result>>
    /\ UNCHANGED <<shoot, fetched, op, timeout, interval, start_time, max_retries, func>>
    /\ UNCHANGED <<args, fetch, landed, helpers, default_config, wire, sel>>

\* The retry loop's while condition fails: the fixed exception is raised.
RetryExhausted ==
    /\ pc \in {"retry_loop", "retry_create"}
    /\ ~RetryGuard(retries, max_retries)
    /\ result' = Raised(MaxRetriesExceeded)
    /\ pc' = "done"
    /\ UNCHANGED <<shoot, fetched, now, op, timeout, interval, start_time, max_retries,
                   retries, func, reqs>>
    /\ UNCHANGED <<args, fetch, landed, helpers, default_config, wire, sel>>

\* safe_call_with_retries(lambda: self.create_shoot(template_string=text)),
\* entry.  The text is a manifest that names the client's own resource.
RetryCreateCall ==
    /\ pc = "idle"
    /\ now <= MaxStart
    /\ \E n \in 0..MaxRetries, i \in Intervals, text \in ManifestTexts :
          /\ yaml_safe_load(text).val.d.name = self.shoot_name
          /\ max_retries' = n
          /\ interval' = i
          /\ args' = [NoArgs EXCEPT !.template_string = text]
    /\ op' = "safe_call_with_retries(create_shoot)"
    /\ retries' = 0
    /\ reqs' = <<>>
    /\ result' = NoResult
    /\ pc' = "retry_create"
    /\ UNCHANGED <<shoot, fetched, now, timeout, start_time, func>>
    /\ UNCHANGED <<fetch, landed, helpers, default_config, wire, sel>>

\* One pass of the retry loop around create_shoot: the create request is
\* issued; create_shoot returns, or it raises and the loop counts the
\* failure and sleeps.  Nothing is asked of the server before the request.
RetryCreateAttempt ==
    /\ pc = "retry_create"
    /\ RetryGuard(retries, max_retries)
    /\ LET ld == LoadTemplate(args.template_string, args.template_file_path,
                              NoSelection, FALSE, "")
           body == RequestBody(ld.out.val.d, self.shoot_name)
       IN  \E o \in CreateOutcomes(shoot, body.spec) :
              /\ shoot' = o.after
              /\ reqs' = Append(reqs, Req("POST", o.resp))
              /\ landed' = IF o.after # shoot THEN Len(reqs) + 1 ELSE landed
              /\ IF AfterCreate(o.resp).kind = "return"
                 THEN /\ result' = AfterCreate(o.resp)
                      /\ pc' = "done"
                      /\ UNCHANGED <<retries, now>>
                 ELSE /\ retries' = retries + 1
                      /\ now' = now + interval
                      /\ UNCHANGED <<pc, result>>
    /\ UNCHANGED <<fetched, op, timeout, interval, start_time, max_retries, func>>
    /\ UNCHANGED <<args, fetch, helpers, default_config, wire, sel>>

\* The caller takes the outcome; the client is ready for the next call.
Return ==
    /\ pc = "done"
    /\ pc' = "idle"
    /\ op' = "none"
    /\ timeout' = 0
    /\ interval' = 0
    /\ start_time' = 0
    /\ max_retries' = 0
    /\ retries' = 0
    /\ func' = NoFunc
    /\ reqs' = <<>>
    /\ result' = NoResult
    /\ fetched' = NoBody
    /\ UNCHANGED <<shoot, now>>
    /\ args' = NoArgs
    /\ fetch' = NoFetch
    /\ landed' = 0
    /\ UNCHANGED <<helpers, default_config, wire, sel>>

\* Gardener's controller removes a resource whose deletion was accepted.
ControllerRemove ==
    /\ pc # "done"
    /\ shoot.exists
    /\ shoot.deleting
    /\ shoot' = NoShoot
    /\ UNCHANGED <<fetched, now, pc, op, timeout, interval, start_time, max_retries,
                   retries, func, reqs, result>>
    /\ UNCHANGED <<args, fetch, landed, helpers, default_config, wire, sel>>

Next ==
    \/ GetShoot
    \/ ShootExists
    \/ CheckShootHealth
    \/ PollStatusCall
    \/ PollStatusIter
    \/ PollStatusTimeout
    \/ PollDeletionCall
    \/ PollDeletionIter
    \/ PollDeletionTimeout
    \/ DeleteShootPatch
    \/ DeleteShootDelete
    \/ CreateShoot
    \/ GetShootAfterCreate
    \/ GetShootKubeconfig
    \/ RetryCall
    \/ RetryAttempt
    \/ RetryExhausted
    \/ RetryCreateCall
    \/ RetryCreateAttempt
    \/ Return
    \/ ControllerRemove

Spec == Init /\ [][Next]_vars

----------------------------------------------------------------------------
(* The blocking methods under the proviso that every remote call returns   *)
(* and the caller keeps running: a loop that can take its next step takes  *)
(* it.  delete_shoot is kept so that the server has a resource to remove   *)
(* while a loop runs.                                                      *)

\* The next step of a loop of the client.
LoopStep ==
    \/ PollStatusIter
    \/ PollStatusTimeout
    \/ PollDeletionIter
    \/ PollDeletionTimeout
    \/ RetryAttempt
    \/ RetryExhausted
    \/ RetryCreateAttempt

NextBlocking ==
    \/ PollStatusCall
    \/ PollDeletionCall
    \/ RetryCall
    \/ RetryCreateCall
    \/ LoopStep
    \/ DeleteShootPatch
    \/ DeleteShootDelete
    \/ Return
    \/ ControllerRemove

SpecBlocking == Init /\ [][NextBlocking]_vars /\ WF_vars(LoopStep)

----------------------------------------------------------------------------
(* The life of one Shoot as the example at the end of the source runs it:  *)
(* create_shoot, delete_shoot, poll_shoot_deletion_status, every one of    *)
(* the requests answered.  The server accepts the deletion of a confirmed  *)
(* resource and removes it no later than RemovalDelay after that: while    *)
(* the removal is overdue the clock stands still, so the client reads no   *)
(* later time before the server has removed the resource.  The polling     *)
(* begins when the deletion is accepted, so start_time is that moment.     *)

InitLifecycle ==
    /\ Init
    /\ shoot = NoShoot

\* The removal is not overdue.
Timely == (shoot.exists /\ shoot.deleting) => now <= start_time + RemovalDelay

\* The last request of the step was answered, with the resource or 404.
Answered == reqs'[Len(reqs')].res \in {"ok", "notfound"}

\* create_shoot creates the client's own resource.
LifecycleCreate ==
    /\ ~shoot.exists
    /\ now <= MaxStart
    /\ CreateShoot
    /\ result'.kind = "return"
    /\ shoot'.exists

\* delete_shoot, both requests accepted.
LifecyclePatch ==
    /\ shoot.exists
    /\ ~shoot.deleting
    /\ DeleteShootPatch
    /\ Answered

LifecycleDelete ==
    /\ DeleteShootDelete
    /\ Answered

\* poll_shoot_deletion_status as the statement after delete_shoot.
LifecyclePollCall ==
    /\ pc = "done"
    /\ op = "delete_shoot"
    /\ result.kind = "return"
    /\ \E t \in Timeouts, i \in Intervals :
          /\ timeout' = t
          /\ interval' = i
    /\ op' = "poll_shoot_deletion_status"
    /\ start_time' = now
    /\ reqs' = <<>>
    /\ result' = NoResult
    /\ pc' = "poll_deletion"
    /\ fetch' = NoFetch
    /\ UNCHANGED <<shoot, fetched, now, max_retries, retries, func>>
    /\ UNCHANGED <<args, landed, helpers, default_config, wire, sel>>

LifecyclePollIter ==
    /\ Timely
    /\ PollDeletionIter
    /\ Answered

LifecyclePollTimeout ==
    /\ Timely
    /\ PollDeletionTimeout

LifecycleReturn ==
    /\ op \in {"create_shoot", "poll_shoot_deletion_status"}
    /\ Return

NextLifecycle ==
    \/ LifecycleCreate
    \/ LifecyclePatch
    \/ LifecycleDelete
    \/ LifecyclePollCall
    \/ LifecyclePollIter
    \/ LifecyclePollTimeout
    \/ LifecycleReturn
    \/ ControllerRemove

SpecLifecycle == InitLifecycle /\ [][NextLifecycle]_vars

----------------------------------------------------------------------------
(* select_shoot_template and determine_cloud_provider on their own: the    *)
(* context and the files are drawn at the start, the methods are applied   *)
(* to them.                                                                *)

InitSelect ==
    /\ sel \in [ctx : Contexts, files : FileSystems]
    /\ shoot = NoShoot
    /\ fetched = NoBody
    /\ now = 0
    /\ pc = "idle"
    /\ op = "none"
    /\ timeout = 0
    /\ interval = 0
    /\ start_time = 0
    /\ max_retries = 0
    /\ retries = 0
    /\ func = NoFunc
    /\ reqs = <<>>
    /\ result = NoResult
    /\ args = NoArgs
    /\ fetch = NoFetch
    /\ landed = 0
    /\ helpers = [i \in Instances |->
                     IF i = 1
                     THEN Constructed("./robot-kubeconfig.yml", "garden-perftests",
                                      ShootName)
                     ELSE NotConstructed]
    /\ default_config = load_kube_config("./robot-kubeconfig.yml")
    /\ wire = <<>>

\* A call of a method that reads the context and the files only.
LocalCall(name, outcome) ==
    /\ pc = "idle"
    /\ op' = name
    /\ result' = outcome
    /\ pc' = "done"
    /\ UNCHANGED <<shoot, fetched, now, timeout, interval, start_time, max_retries,
                   retries, func, reqs>>
    /\ UNCHANGED <<args, fetch, landed, helpers, default_config, wire, sel>>

DetermineCloudProvider ==
    LocalCall("determine_cloud_provider", determine_cloud_provider(sel.ctx))

SelectShootTemplate ==
    LocalCall("select_shoot_template", select_shoot_template(sel.ctx, sel.files))

NextSelect ==
    \/ DetermineCloudProvider
    \/ SelectShootTemplate
    \/ Return

SpecSelect == InitSelect /\ [][NextSelect]_vars

----------------------------------------------------------------------------
(* Two instances of one process, constructed and used in any interleaving  *)
(* (two threads).  The constructor is three steps: the attributes are      *)
(* stored, config.load_kube_config sets the process-wide default           *)
(* Configuration, and client.CustomObjectsApi() takes a copy of the        *)
(* default of that moment.                                                  *)

InitInstances ==
    /\ helpers = [i \in Instances |-> NotConstructed]
    /\ default_config = NoConfiguration
    /\ wire = <<>>
    /\ shoot = NoShoot
    /\ fetched = NoBody
    /\ now = 0
    /\ pc = "idle"
    /\ op = "none"
    /\ timeout = 0
    /\ interval = 0
    /\ start_time = 0
    /\ max_retries = 0
    /\ retries = 0
    /\ func = NoFunc
    /\ reqs = <<>>
    /\ result = NoResult
    /\ args = NoArgs
    /\ fetch = NoFetch
    /\ landed = 0
    /\ sel = NoSelectInput

\* What a step of the instances leaves alone.
OneClientVars ==
    <<shoot, fetched, now, pc, op, timeout, interval, start_time, max_retries,
      retries, func, reqs, result, args, fetch, landed, sel>>

\* __init__, the assignments of kubeconfig_path, namespace and shoot_name.
StoreAttributes(i) ==
    /\ helpers[i].pc = "new"
    /\ \E path \in KubeconfigPaths, ns \in Namespaces, name \in ShootNames :
          helpers' = [helpers EXCEPT ![i] =
                         [pc |-> "attrs", kubeconfig_path |-> path,
                          namespace |-> ns, shoot_name |-> name,
                          custom_api |-> NoConfiguration]]
    /\ UNCHANGED <<default_config, wire>>
    /\ UNCHANGED OneClientVars

\* __init__, config.load_kube_config(config_file=self.kubeconfig_path).
LoadKubeConfig(i) ==
    /\ helpers[i].pc = "attrs"
    /\ default_config' = load_kube_config(helpers[i].kubeconfig_path)
    /\ helpers' = [helpers EXCEPT ![i].pc = "loaded"]
    /\ UNCHANGED wire
    /\ UNCHANGED OneClientVars

\* __init__, self.custom_api = client.CustomObjectsApi().
NewCustomObjectsApi(i) ==
    /\ helpers[i].pc = "loaded"
    /\ helpers' = [helpers EXCEPT ![i].pc = "ready",
                                  ![i].custom_api = default_config]
    /\ UNCHANGED <<default_config, wire>>
    /\ UNCHANGED OneClientVars

\* A request of a constructed instance: it goes to the endpoint and with the
\* credentials of self.custom_api, for the instance's handle.
SendRequest(i) ==
    /\ helpers[i].pc = "ready"
    /\ Len(wire) < MaxWire
    /\ wire' = Append(wire, [instance |-> i,
                             host |-> helpers[i].custom_api.host,
                             token |-> helpers[i].custom_api.token,
                             namespace |-> helpers[i].namespace,
                             name |-> helpers[i].shoot_name])
    /\ UNCHANGED <<helpers, default_config>>
    /\ UNCHANGED OneClientVars

NextInstances ==
    \E i \in Instances :
        \/ StoreAttributes(i)
        \/ LoadKubeConfig(i)
        \/ NewCustomObjectsApi(i)
        \/ SendRequest(i)

SpecInstances == InitInstances /\ [][NextInstances]_vars

----------------------------------------------------------------------------
(* What the claims speak of *)

Finished(name) == pc = "done" /\ op = name
LastReq == reqs[Len(reqs)]
RequestsOf(verb) == {i \in DOMAIN reqs : reqs[i].verb = verb}
PatchesSucceeded == {i \in RequestsOf("PATCH") : reqs[i].res = "ok"}

\* C1: in delete_shoot every delete request comes after a patch request of
\* the same call that succeeded, so the delete requests issued never
\* outnumber the patches that succeeded; after a failed patch none is
\* issued.
C1_DeleteOnlyAfterPatch ==
    op = "delete_shoot" =>
        /\ Cardinality(RequestsOf("DELETE")) <= Cardinality(PatchesSucceeded)
        /\ \A j \in RequestsOf("DELETE") : \E i \in PatchesSucceeded : i < j
        /\ (reqs # <<>> /\ reqs[1].res # "ok") => RequestsOf("DELETE") = {}

\* A delete_shoot that patched and then issued its delete request.
C1_Witness ==
    /\ Finished("delete_shoot")
    /\ Len(reqs) = 2
    /\ reqs[1].verb = "PATCH" /\ reqs[1].res = "ok"
    /\ reqs[2].verb = "DELETE"

\* The spellings of a word that equal it when case is ignored.
SpelledSucceeded == {"succeeded", "Succeeded", "SUCCEEDED"}
SpelledFailed == {"failed", "Failed", "FAILED"}

\* The fetches of the current call that reported a lastOperation.state
\* among the given spellings.
Reported(spellings) ==
    {i \in DOMAIN reqs : /\ reqs[i].res = "ok"
                         /\ reqs[i].hasLastOp
                         /\ reqs[i].state \in spellings}

\* A fetch that showed no lastOperation to read: no resource, or a resource
\* without status or without status.lastOperation.
Transient(r) == r.res = "notfound" \/ (r.res = "ok" /\ ~r.hasLastOp)

\* C2: poll_shoot_status returns True if and only if one of the fetches it
\* made reported lastOperation.state equal to "succeeded" when case is
\* ignored, whatever the earlier fetches reported.
C2_TrueIffSucceededObserved ==
    Finished("poll_shoot_status") =>
        (result = Returned(PyTrue) <=> Reported(SpelledSucceeded) # {})

\* A poll that saw another state first and then "SUCCEEDED".
C2_Witness ==
    /\ Finished("poll_shoot_status")
    /\ result = Returned(PyTrue)
    /\ Len(reqs) >= 2
    /\ reqs[1].state = "Processing"
    /\ LastReq.state = "SUCCEEDED"

\* C3: a fetch that shows no status or no lastOperation (or no resource)
\* neither ends poll_shoot_status nor makes it raise: the loop goes on, and
\* a call that ends without any fetch having reported "succeeded" or
\* "failed", nor having failed, returns "in-progress".
C3_NoStatusIsTransient ==
    op = "poll_shoot_status" =>
        /\ (reqs # <<>> /\ Transient(LastReq)) =>
               \/ pc = "poll_status" /\ result = NoResult
               \/ pc = "done" /\ result = Returned(InProgress)
        /\ (/\ pc = "done"
            /\ Reported(SpelledSucceeded \cup SpelledFailed) = {}
            /\ \A i \in DOMAIN reqs : reqs[i].res \in {"ok", "notfound"}) =>
               result = Returned(InProgress)

\* A poll whose fetches all showed no lastOperation and which timed out.
C3_Witness ==
    /\ Finished("poll_shoot_status")
    /\ Len(reqs) >= 2
    /\ \A i \in DOMAIN reqs : Transient(reqs[i])
    /\ reqs[1].res = "ok"
    /\ result = Returned(InProgress)

\* C4: poll_shoot_deletion_status returns True exactly at the first fetch
\* answered not-found: no fetch follows a not-found, True is the result if
\* and only if the last fetch was answered not-found, and a call all of
\* whose fetches succeeded returns "in-progress".
C4_DeletedAtFirstNotFound ==
    op = "poll_shoot_deletion_status" =>
        /\ \A i \in DOMAIN reqs : reqs[i].res = "notfound" =>
               i = Len(reqs) /\ pc = "done"
        /\ pc = "done" =>
               /\ result = Returned(PyTrue) <=>
                      (reqs # <<>> /\ LastReq.res = "notfound")
               /\ (\A i \in DOMAIN reqs : reqs[i].res = "ok") =>
                      result = Returned(InProgress)

\* A deletion poll that saw the resource, then a server error, then
\* not-found.
C4_Witness ==
    /\ Finished("poll_shoot_deletion_status")
    /\ Len(reqs) = 3
    /\ reqs[1].res = "ok"
    /\ reqs[2].res = "apierror"
    /\ reqs[3].res = "notfound"
    /\ result = Returned(PyTrue)

\* C5: poll_shoot_deletion_status never raises: whatever failures other
\* than not-found its fetches meet, it returns, and a call all of whose
\* fetches failed that way returns "in-progress".
C5_DeletionPollNeverRaises ==
    Finished("poll_shoot_deletion_status") =>
        /\ result.kind = "return"
        /\ (\A i \in DOMAIN reqs : reqs[i].res \in {"apierror", "transport"}) =>
               result = Returned(InProgress)

\* C6: with a callable that fails on its first k invocations and succeeds
\* afterwards, safe_call_with_retries with max_retries = N returns the value
\* after exactly k+1 invocations when k < N and raises its retries-exhausted
\* error after exactly N invocations when k >= N; nothing is invoked after
\* a success.
C6_RetryCounts ==
    op = "safe_call_with_retries" =>
        /\ \A i \in DOMAIN reqs : reqs[i].res = "ok" =>
               i = Len(reqs) /\ pc = "done"
        /\ pc = "done" =>
               IF func.failFirst < max_retries
               THEN /\ result = Returned(FuncValue)
                    /\ Len(reqs) = func.failFirst + 1
               ELSE /\ result = Raised(MaxRetriesExceeded)
                    /\ Len(reqs) = max_retries

\* The callable failed twice and succeeded at the third of three attempts.
C6_Witness ==
    /\ Finished("safe_call_with_retries")
    /\ func.failFirst = 2
    /\ max_retries = 3
    /\ Len(reqs) = 3
    /\ result = Returned(FuncValue)

\* C7: when every attempt of safe_call_with_retries failed, the exception
\* it raises carries the exception of the last attempt.
C7_CarriesLastFailure ==
    (/\ Finished("safe_call_with_retries")
     /\ result.kind = "raise"
     /\ reqs # <<>>) =>
        result.val.cause = LastReq.err

\* The status of the resource check_shoot_health fetched.
Fetched(name) == Finished(name) /\ LastReq.res = "ok"

C9_UnavailableOnlyWithoutResource ==
    Fetched("check_shoot_health") => result # Returned(PyStr(NoStatusAvailable))

\* C9 amended: check_shoot_health returns "No status available" exactly
\* when get_shoot gave None or the resource has no status key; with a
\* status it returns something else.
C9_UnavailableIffNoStatus ==
    (Finished("check_shoot_health") /\ result.kind = "return") =>
        (result = Returned(PyStr(NoStatusAvailable)) <=>
            \/ LastReq.res = "notfound"
            \/ LastReq.res = "ok" /\ ~fetched.status.present)

\* A resource that exists without a status: "No status available".
C9_Witness ==
    /\ Fetched("check_shoot_health")
    /\ ~fetched.status.present
    /\ result = Returned(PyStr(NoStatusAvailable))

\* C10: get_shoot returns None exactly when the server answered not-found,
\* the resource when the request succeeded, and raises the failure
\* otherwise; shoot_exists returns True exactly when the request succeeded
\* and False exactly when it was answered not-found.
C10_GetShootAndExists ==
    /\ Finished("get_shoot") =>
          /\ result = Returned(PyNone) <=> LastReq.res = "notfound"
          /\ LastReq.res = "ok" =>
                /\ result = Returned(PyObj(fetched))
                /\ fetched = WithStatus(shoot, fetched.status)
          /\ LastReq.res \in {"apierror", "transport"} =>
                result.kind = "raise" /\ result.val.cls = LastReq.err
    /\ Finished("shoot_exists") =>
          /\ result = Returned(PyTrue) <=> LastReq.res = "ok"
          /\ result = Returned(PyFalse) <=> LastReq.res = "notfound"
          /\ LastReq.res \in {"apierror", "transport"} =>
                result.kind = "raise" /\ result.val.cls = LastReq.err

\* get_shoot answered not-found: None.
C10_Witness ==
    /\ Finished("get_shoot")
    /\ LastReq.res = "notfound"
    /\ result = Returned(PyNone)


\* get_shoot ran as the statement after a create_shoot that returned.
AfterCreate_GetShoot == Finished("get_shoot") /\ args.body # NoTemplate

\* C11: after a create_shoot that succeeded with manifest m, a get_shoot
\* that follows at once and whose request is answered returns a resource
\* (not None) whose spec is m's.
C11_GetAfterCreate ==
    (AfterCreate_GetShoot /\ LastReq.res \in {"ok", "notfound"}) =>
        /\ result.kind = "return"
        /\ result.val.t = "dict"
        /\ result.val.d.spec = args.body.spec

\* The same for the manifests that name the resource as the client does.
C11_GetAfterCreateOwnName ==
    (AfterCreate_GetShoot /\ LastReq.res \in {"ok", "notfound"}
        /\ args.body.name = self.shoot_name) =>
        /\ result.kind = "return"
        /\ result.val.t = "dict"
        /\ result.val.d.spec = args.body.spec


\* C12: a create_shoot given both an inline manifest string and a file path
\* opens no file and loads the parse of the inline string; and whenever
\* create_shoot issues its request, the body is the manifest it loaded,
\* unmodified.
C12_InlineFirstBodyUnmodified ==
    Finished("create_shoot") =>
        /\ (TruthyStr(args.template_string) /\ TruthyStr(args.template_file_path)) =>
              /\ args.opened = <<>>
              /\ args.shoot_template = yaml_safe_load(args.template_string)
        /\ reqs # <<>> =>
              /\ args.shoot_template.kind = "return"
              /\ args.shoot_template.val = PyObj(args.body)

\* A create_shoot given both arguments whose request was accepted.
C12_Witness ==
    /\ Finished("create_shoot")
    /\ TruthyStr(args.template_string)
    /\ TruthyStr(args.template_file_path)
    /\ reqs # <<>>
    /\ LastReq.res = "ok"
    /\ args.body \in ShootTemplates


\* C13: a create_shoot called with neither an inline manifest nor a file
\* path, when select_shoot_template raises (provider undetermined, no
\* template found), raises a ValueError that asks for an explicit template
\* and issues no request.
C13_NoTemplateNoRequest ==
    (Finished("create_shoot")
        /\ Selecting(args.template_string, args.template_file_path)
        /\ args.selected.kind = "raise") =>
        /\ result.kind = "raise"
        /\ result.val.cls = "ValueError"
        /\ result.val.msg = ExplicitTemplate
        /\ reqs = <<>>
        /\ args.opened = <<>>

\* A create_shoot without arguments for which no template file was found.
C13_Witness ==
    /\ Finished("create_shoot")
    /\ args.template_string = Absent
    /\ args.template_file_path = Absent
    /\ args.selected = Raised(FileNotFoundError(NoTemplateFor))
    /\ result.kind = "raise"


\* select_shoot_template ran with a templates directory present and a
\* provider determined from the context.
SelectedWithDir ==
    /\ Finished("select_shoot_template")
    /\ TemplatesDir \in sel.files
    /\ sel.ctx.file = "ok"
    /\ TruthyStr(sel.ctx.type)

\* C14: with a templates directory and a determined provider p,
\* select_shoot_template returns shoot-<p>.yml when it exists; otherwise the
\* generic shoot.yml when it exists; otherwise the manifest of another
\* provider when one exists; otherwise it raises FileNotFoundError.
C14_SelectionOrder ==
    SelectedWithDir =>
        LET p == sel.ctx.type
            others == {TemplateOf(q) : q \in Providers \ {p}} \cap sel.files
        IN  IF TemplateOf(p) \in sel.files
            THEN result = Returned(PyStr(TemplateOf(p)))
            ELSE IF GenericTemplate \in sel.files
            THEN result = Returned(PyStr(GenericTemplate))
            ELSE IF others # {}
            THEN result \in {Returned(PyStr(f)) : f \in others}
            ELSE result.kind = "raise" /\ result.val.cls = "FileNotFoundError"

\* The same order with the third step as the code takes it: the first of
\* shoot-aws.yml, shoot-azure.yml, shoot-gcp.yml that exists.
C14_SelectionOrderFallbacks ==
    SelectedWithDir =>
        LET p == sel.ctx.type
            known == {i \in DOMAIN FallbackProviders :
                         TemplateOf(FallbackProviders[i]) \in sel.files}
        IN  IF TemplateOf(p) \in sel.files
            THEN result = Returned(PyStr(TemplateOf(p)))
            ELSE IF GenericTemplate \in sel.files
            THEN result = Returned(PyStr(GenericTemplate))
            ELSE IF known # {}
            THEN \E i \in known :
                    /\ \A j \in known : i <= j
                    /\ result = Returned(PyStr(TemplateOf(FallbackProviders[i])))
            ELSE result.kind = "raise" /\ result.val.cls = "FileNotFoundError"


\* C15: the attributes namespace, shoot_name and custom_api of the instance
\* are those its constructor set, whatever methods have run.
C15_HandleNeverChanges ==
    /\ self.namespace = "garden-perftests"
    /\ self.shoot_name = ShootName
    /\ self.custom_api = load_kube_config(self.kubeconfig_path)
    /\ self = Constructed("./robot-kubeconfig.yml", "garden-perftests", ShootName)

\* A get_shoot_kubeconfig that returned the shoot's kubeconfig and client.
C15_Witness ==
    /\ Finished("get_shoot_kubeconfig")
    /\ result.kind = "return"
    /\ result.val.d.shoot_api_client = ShootConfiguration
    /\ self.custom_api # ShootConfiguration


Polling == op \in {"poll_shoot_status", "poll_shoot_deletion_status"}

DifferentBundles ==
    /\ helpers[1].pc # "new"
    /\ helpers[2].pc # "new"
    /\ helpers[1].kubeconfig_path # helpers[2].kubeconfig_path
    /\ <<helpers[1].namespace, helpers[1].shoot_name>>
           # <<helpers[2].namespace, helpers[2].shoot_name>>

\* C17: of two instances constructed with different kubeconfig files for
\* different handles, every request of an instance goes to the endpoint and
\* carries the credentials of the kubeconfig file passed to its own
\* constructor, whatever the interleaving of constructors and requests.
C17_OwnCredentials ==
    DifferentBundles =>
        \A k \in DOMAIN wire :
            LET own == load_kube_config(helpers[wire[k].instance].kubeconfig_path)
            IN  /\ wire[k].host = own.host
                /\ wire[k].token = own.token


\* C18: when create_shoot runs through safe_call_with_retries and a create
\* request was carried out by the server but reported to the client as
\* failed, no further request is submitted by that call.
C18_NoSecondSubmission ==
    (op = "safe_call_with_retries(create_shoot)"
        /\ landed > 0
        /\ reqs[landed].res # "ok") =>
        Len(reqs) = landed


\* A request of the current call failed.
SomeRequestFailed == \E i \in DOMAIN reqs : reqs[i].res # "ok"

\* C19: create_shoot and delete_shoot never return normally after one of
\* their requests failed: they raise, and what they raise is the exception
\* of the failed request.
C19_FailuresSurface ==
    ((Finished("create_shoot") \/ Finished("delete_shoot")) /\ SomeRequestFailed) =>
        /\ result.kind = "raise"
        /\ result.val.cls = LastReq.err
        /\ LastReq.res # "ok"

\* A create_shoot whose request was refused as a conflict.
C19_Witness ==
    /\ Finished("create_shoot")
    /\ reqs # <<>>
    /\ LastReq.res = "apierror"
    /\ result = Raised(ApiException(409))


\* C20: a patch of delete_shoot that succeeds adds the confirmation
\* annotation and leaves every other annotation, the spec and the rest of
\* the resource as they were.
C20_PatchKeepsTheRest ==
    [][(pc = "idle" /\ op' = "delete_shoot" /\ reqs'[1].res = "ok") =>
          /\ shoot'.annotations = shoot.annotations \cup {ConfirmationAnnotation}
          /\ shoot'.spec = shoot.spec
          /\ shoot'.exists = shoot.exists
          /\ shoot'.deleting = shoot.deleting]_vars

\* delete_shoot has patched a resource that carried another annotation.
C20_Witness ==
    /\ op = "delete_shoot"
    /\ pc = "delete_phase2"
    /\ reqs[1].res = "ok"
    /\ shoot.annotations = {OtherAnnotation, ConfirmationAnnotation}


InLoop == pc \in {"poll_status", "poll_deletion", "retry_loop", "retry_create"}
Retrying == op \in {"safe_call_with_retries", "safe_call_with_retries(create_shoot)"}

\* C21: a call of safe_call_with_retries, poll_shoot_status or
\* poll_shoot_deletion_status that has begun ends, with a value or with an
\* exception, and safe_call_with_retries invokes its callable at most
\* max_retries times.
C21_BlockingCallsEnd ==
    /\ InLoop ~> (pc = "done" /\ result.kind \in {"return", "raise"})
    /\ [](Retrying => Len(reqs) <= max_retries)

\* A poll_shoot_status that ran several passes and ended at its timeout.
C21_Witness ==
    /\ Finished("poll_shoot_status")
    /\ Len(reqs) >= 2
    /\ result = Returned(InProgress)


\* In every state the server has accepted a deletion only of a resource
\* that carries the confirmation annotation; the server removes nothing
\* but a resource whose deletion it has accepted (ControllerRemove).
RemovedOnlyConfirmed ==
    shoot.deleting => ConfirmationAnnotation \in shoot.annotations

C23_FireAndForget ==
    [][(pc = "idle" /\ pc' = "done" /\ op' = "create_shoot"
          /\ result'.kind = "return") =>
          /\ Len(reqs') = 1
          /\ reqs'[1].verb = "POST"
          /\ reqs'[1].res = "ok"
          /\ now' = now
          /\ result'.val.t = "dict"
          /\ result'.val.d.exists
          /\ result'.val.d.spec = args'.body.spec]_vars

\* A create_shoot from a file that returned the created resource.
C23_Witness ==
    /\ Finished("create_shoot")
    /\ args.template_file_path = CallerPath
    /\ result.kind = "return"
    /\ result.val.t = "dict"
    /\ Len(reqs) = 1


ReadMethods ==
    {"get_shoot", "shoot_exists", "check_shoot_health", "poll_shoot_status",
     "poll_shoot_deletion_status"}

\* C24: every step of get_shoot, shoot_exists, check_shoot_health,
\* poll_shoot_status and poll_shoot_deletion_status leaves the resource on
\* the server as it was, and every request these methods have issued is a
\* GET.  (A step of the client is one that moves pc or adds a request; the
\* server's own steps do neither.)
C24_ReadsOnlyFetch ==
    [][(op' \in ReadMethods /\ (pc' # pc \/ reqs' # reqs)) =>
          /\ shoot' = shoot
          /\ \A i \in DOMAIN reqs' : reqs'[i].verb = "GET"]_vars

\* shoot_exists found the resource, which is still there.
C24_Witness ==
    /\ Finished("shoot_exists")
    /\ result = Returned(PyTrue)
    /\ shoot.exists
    /\ reqs[1].verb = "GET"


\* C25: in poll_shoot_status a fetch that reports "succeeded" or "failed"
\* (case ignored) is the last fetch of the call: the call has returned at
\* that pass, without sleeping, True for "succeeded" and False for
\* "failed", however much of the timeout is left for later fetches.
C25_ReturnsAtFirstTerminal ==
    op = "poll_shoot_status" =>
        \A i \in Reported(SpelledSucceeded \cup SpelledFailed) :
            /\ i = Len(reqs)
            /\ pc = "done"
            /\ now = fetch.at + fetch.lat
            /\ result = IF reqs[i].state \in SpelledFailed
                        THEN Returned(PyFalse) ELSE Returned(PyTrue)

\* A poll that returned False at a first fetch reporting "Failed" with
\* enough of the timeout left for another fetch.
C25_Witness ==
    /\ Finished("poll_shoot_status")
    /\ Len(reqs) = 1
    /\ LastReq.state = "Failed"
    /\ result = Returned(PyFalse)
    /\ now - start_time + interval < timeout


FetchFailed(r) == r.res \in {"apierror", "transport"}

\* C26: a fetch that fails otherwise than with not-found ends
\* poll_shoot_status at once with that error raised, whereas in
\* poll_shoot_deletion_status such a fetch is swallowed: the loop goes on
\* and the call ends by returning, never by raising.
C26_RaisedHereSwallowedThere ==
    /\ op = "poll_shoot_status" =>
           \A i \in DOMAIN reqs : FetchFailed(reqs[i]) =>
               /\ i = Len(reqs)
               /\ pc = "done"
               /\ result.kind = "raise"
               /\ result.val.cls = reqs[i].err
               /\ now = fetch.at + fetch.lat
    /\ (op = "poll_shoot_deletion_status" /\ reqs # <<>> /\ FetchFailed(LastReq)) =>
           \/ pc = "poll_deletion" /\ result = NoResult
           \/ pc = "done" /\ result = Returned(InProgress)


\* C27: with a timeout of zero or less both polling methods issue no fetch
\* and return "in-progress" without any time passing, whatever the state
\* of the resource, a resource that is gone included.
C27_NoFetchWithoutTimeout ==
    (Polling /\ timeout <= 0) =>
        /\ reqs = <<>>
        /\ ~fetch.begun
        /\ now = start_time
        /\ pc = "done" => result = Returned(InProgress)

\* poll_shoot_deletion_status with timeout 0 on a resource that is gone:
\* "in-progress", not True.
C27_Witness ==
    /\ Finished("poll_shoot_deletion_status")
    /\ timeout = 0
    /\ ~shoot.exists
    /\ reqs = <<>>
    /\ result = Returned(InProgress)


InRetryLoop == pc \in {"retry_loop", "retry_create"}
AttemptFailed == reqs' # reqs /\ reqs'[Len(reqs')].res # "ok"

\* C28: in safe_call_with_retries every failed attempt, the last one
\* included, is counted once and followed by one sleep of interval, and
\* nothing else lets time pass, so that the sleeps number as many as the
\* failed attempts.  The retries-exhausted error is raised by a step of
\* its own, after the sleep of the last failure, when max_retries attempts
\* have failed; with max_retries zero or less the loop is not entered, so
\* nothing has been invoked, no time has passed and the error is raised
\* at once.
C28_SleepAfterEveryFailure ==
    [][InRetryLoop =>
          /\ retries' - retries = IF AttemptFailed THEN 1 ELSE 0
          /\ now' - now = interval * (retries' - retries)
          /\ retries = Len(reqs)
          /\ (pc' = "done" /\ result'.kind = "raise") =>
                /\ result' = Raised(MaxRetriesExceeded)
                /\ reqs' = reqs
                /\ now' = now
                /\ retries = max_retries
          /\ \A m \in -MaxRetries..0 : ~RetryGuard(0, m)
          /\ (max_retries <= 0 /\ pc' # pc) =>
                /\ reqs' = <<>>
                /\ retries' = 0
                /\ result' = Raised(MaxRetriesExceeded)]_vars

\* All three of three attempts failed, three sleeps were taken and the
\* error has been raised.
C28_Witness ==
    /\ Finished("safe_call_with_retries")
    /\ max_retries = 3
    /\ retries = 3
    /\ Len(reqs) = 3
    /\ now >= 3 * interval
    /\ result = Raised(MaxRetriesExceeded)

====
